---- MODULE Spec2Model ----
(***************************************************************************)
(* Model of the EDGAR revenue fix (src/fix_edgar_revenue.py):              *)
(*   - the expansion of the global EDGAR_TAG_MAPPING (lines 23-43),        *)
(*   - the patched to_financials_dict (lines 54-83), which copies the      *)
(*     first row the loader returns, overrides revenue by the sum of its   *)
(*     components and recomputes gross_profit.                             *)
(* Monetary values are floats in the code; the model uses integers in a    *)
(* small range, on which float addition, subtraction and comparison are    *)
(* exact.                                                                  *)
(***************************************************************************)
EXTENDS Integers, Sequences, FiniteSets, TLC

VARIABLES
    loader,              \* edgar_loader's data: year -> what get_company_financials returns
    called_year,         \* the year argument of the last call of to_financials_dict
    result,              \* [status, financials]: outcome of the last call
    first_call,          \* [made, year, result]: the first call and its outcome
    years_called,        \* the year arguments of all calls made so far
    EDGAR_TAG_MAPPING,   \* the global raw tag -> canonical field dict
    fix_applied,         \* TRUE once the expansion loop (lines 41-43) has run
    rawTags,             \* the tag set last handed to resolve
    resolved             \* what resolve returned for it

vars == <<loader, called_year, result, first_call, years_called,
          EDGAR_TAG_MAPPING, fix_applied, rawTags, resolved>>

----------------------------------------------------------------------------
(* Bounds *)

MaxVal == 1        \* numeric cells range over -MaxVal..MaxVal
SessionMaxVal == 1 \* numeric cells of the multi-call session: 1..SessionMaxVal

Nums == (0 - MaxVal)..MaxVal

----------------------------------------------------------------------------
(* Rows of the loader's DataFrame *)

\* row.index: the identifier columns and the canonical fields, in column order
ColumnOrder ==
    <<"cik", "year", "revenue", "revenue_products", "revenue_services",
      "cogs", "gross_profit", "accounts_receivable">>

Columns == {ColumnOrder[i] : i \in 1..Len(ColumnOrder)}

IdColumns == {"cik", "year"}

\* A cell is a number, NaN (the DataFrame's absence marker) or a string.
Num(n) == [kind |-> "num", num |-> n, text |-> ""]
NaN == [kind |-> "nan", num |-> 0, text |-> ""]
Str(s) == [kind |-> "str", num |-> 0, text |-> s]

\* pd.notna(value): NaN is the only absent cell value; strings are "not NA"
notna(value) == value.kind # "nan"

\* The strings float() parses, with the number each denotes
NumericLiterals == [s \in {"-1", "0", "1"} |->
                      IF s = "-1" THEN 0 - 1 ELSE IF s = "0" THEN 0 ELSE 1]

\* float(value): identity on numbers, parses numeric strings, raises
\* ValueError on any other string.  Returns [ok, v].
float(value) ==
    IF value.kind = "num" THEN [ok |-> TRUE, v |-> value.num]
    ELSE IF value.kind = "str" /\ value.text \in DOMAIN NumericLiterals
         THEN [ok |-> TRUE, v |-> NumericLiterals[value.text]]
         ELSE [ok |-> FALSE, v |-> 0]

----------------------------------------------------------------------------
(* Python dict helpers *)

EmptyDict == <<>>

\* d[k] = v
DictSet(d, k, v) == [x \in (DOMAIN d) \cup {k} |-> IF x = k THEN v ELSE d[x]]

\* d.get(k, default)
DictGet(d, k, default) == IF k \in DOMAIN d THEN d[k] ELSE default

----------------------------------------------------------------------------
(* fixed_to_financials_dict *)

\* row.index as a sequence: the row's columns in column order
RowIndex(row) == SelectSeq(ColumnOrder, LAMBDA c : c \in DOMAIN row)

\* The copy loop correcting signs: abs(float(value))
RECURSIVE CopyLoopAbs(_, _, _, _)
CopyLoopAbs(row, index, i, financials) ==
    IF i > Len(index) THEN [ok |-> TRUE, financials |-> financials]
    ELSE LET col == index[i]
             value == row[col]
             v == float(value).v
         IN  IF col \in IdColumns THEN CopyLoopAbs(row, index, i + 1, financials)
             ELSE IF ~notna(value) THEN CopyLoopAbs(row, index, i + 1, financials)
             ELSE IF ~float(value).ok THEN [ok |-> FALSE, financials |-> financials]
             ELSE CopyLoopAbs(row, index, i + 1,
                              DictSet(financials, col, IF v < 0 THEN 0 - v ELSE v))

\* Lines 65-70: the copy loop from position i of the index on; a failing
\* float() aborts the call.  Returns [ok, financials].
RECURSIVE CopyLoop(_, _, _, _)
CopyLoop(row, index, i, financials) ==
    IF i > Len(index) THEN [ok |-> TRUE, financials |-> financials]
    ELSE LET col == index[i]
             value == row[col]
         IN  IF col \in IdColumns THEN CopyLoop(row, index, i + 1, financials)
             ELSE IF ~notna(value) THEN CopyLoop(row, index, i + 1, financials)
             ELSE IF ~float(value).ok THEN [ok |-> FALSE, financials |-> financials]
             ELSE CopyLoop(row, index, i + 1,
                           DictSet(financials, col, float(value).v))

\* The override adding the component sum to the reported revenue
SumComponentsAccumulate(financials) ==
    IF "revenue_products" \in DOMAIN financials
       /\ "revenue_services" \in DOMAIN financials
    THEN LET total_rev == DictGet(financials, "revenue_products", 0)
                          + DictGet(financials, "revenue_services", 0)
         IN  DictSet(financials, "revenue",
                     DictGet(financials, "revenue", 0) + total_rev)
    ELSE financials

\* The override taken when either component is present ("or" for "and")
SumComponentsEither(financials) ==
    IF "revenue_products" \in DOMAIN financials
       \/ "revenue_services" \in DOMAIN financials
    THEN LET total_rev == DictGet(financials, "revenue_products", 0)
                          + DictGet(financials, "revenue_services", 0)
         IN  IF total_rev > DictGet(financials, "revenue", 0)
             THEN DictSet(financials, "revenue", total_rev)
             ELSE financials
    ELSE financials

\* The override without its guard on the presence of both components
SumComponentsUnguarded(financials) ==
    LET total_rev == DictGet(financials, "revenue_products", 0)
                     + DictGet(financials, "revenue_services", 0)
    IN  IF total_rev > DictGet(financials, "revenue", 0)
        THEN DictSet(financials, "revenue", total_rev)
        ELSE financials

\* Lines 72-77: the component-sum override
SumComponents(financials) ==
    IF "revenue_products" \in DOMAIN financials
       /\ "revenue_services" \in DOMAIN financials
    THEN LET total_rev == DictGet(financials, "revenue_products", 0)
                          + DictGet(financials, "revenue_services", 0)
         IN  IF total_rev > DictGet(financials, "revenue", 0)
             THEN DictSet(financials, "revenue", total_rev)
             ELSE financials
    ELSE financials

\* gross_profit derived only when the row reported none
RecalcGrossProfitIfMissing(financials) ==
    IF "revenue" \in DOMAIN financials /\ "cogs" \in DOMAIN financials
       /\ "gross_profit" \notin DOMAIN financials
    THEN DictSet(financials, "gross_profit",
                 financials["revenue"] - financials["cogs"])
    ELSE financials

\* Lines 79-81: gross_profit recomputed from revenue and cogs
RecalcGrossProfit(financials) ==
    IF "revenue" \in DOMAIN financials /\ "cogs" \in DOMAIN financials
    THEN DictSet(financials, "gross_profit",
                 financials["revenue"] - financials["cogs"])
    ELSE financials

\* What get_company_financials returns: None or a DataFrame (its rows)
None == [kind |-> "None", rows |-> <<>>]
Frame(rows) == [kind |-> "frame", rows |-> rows]

Returned(financials) == [status |-> "ok", financials |-> financials]
ReturnedNone == [status |-> "none", financials |-> EmptyDict]
Raised == [status |-> "raised", financials |-> EmptyDict]
NotCalled == [status |-> "notcalled", financials |-> EmptyDict]

\* The call without the len(company_data) == 0 test: iloc[0] on an empty
\* frame raises IndexError
ReconcileNoLenCheck(data, start) ==
    IF data = None THEN ReturnedNone
    ELSE IF Len(data.rows) = 0 THEN Raised
    ELSE LET row == data.rows[1]
             copied == CopyLoop(row, RowIndex(row), 1, start)
         IN  IF ~copied.ok THEN Raised
             ELSE Returned(RecalcGrossProfit(SumComponents(copied.financials)))

\* The call reading financials['revenue'] where the code uses .get: KeyError
\* when both components are present and revenue is not
ReconcileKeyError(data, start) ==
    IF data = None THEN ReturnedNone
    ELSE IF Len(data.rows) = 0 THEN ReturnedNone
    ELSE LET row == data.rows[1]
             copied == CopyLoop(row, RowIndex(row), 1, start)
         IN  IF ~copied.ok THEN Raised
             ELSE IF {"revenue_products", "revenue_services"}
                        \subseteq DOMAIN copied.financials
                     /\ "revenue" \notin DOMAIN copied.financials
                  THEN Raised
             ELSE Returned(RecalcGrossProfit(SumComponents(copied.financials)))

\* Lines 54-83, on what the loader returned (None or a sequence of rows),
\* starting from the dict `start` (line 63: always the empty dict).
Reconcile(data, start) ==
    IF data = None THEN ReturnedNone
    ELSE IF Len(data.rows) = 0 THEN ReturnedNone
    ELSE LET row == data.rows[1]
             copied == CopyLoop(row, RowIndex(row), 1, start)
         IN  IF ~copied.ok THEN Raised
             ELSE Returned(RecalcGrossProfit(SumComponents(copied.financials)))

\* `financials` kept across calls (a module-level dict) instead of line 63
fixed_to_financials_dict_shared(data) == Reconcile(data, result.financials)

fixed_to_financials_dict(data) == Reconcile(data, EmptyDict)

----------------------------------------------------------------------------
(* The rows the specifications draw from *)

APPLE_CIK == 320193
FiscalYear == 2024
DiagnosticYear == 2023

FieldColumns == Columns \ IdColumns
RevenueColumns == {"revenue", "revenue_products", "revenue_services", "cogs"}

\* Marks a column the row does not have at all
Missing == [kind |-> "missing", num |-> 0, text |-> ""]

\* The row of `year` with the cells f, less its missing columns
RowOf(f, year) ==
    [c \in IdColumns \cup {x \in FieldColumns : f[x] # Missing} |->
        IF c = "cik" THEN Num(APPLE_CIK)
        ELSE IF c = "year" THEN Num(year)
        ELSE f[c]]

NumCells == {Num(n) : n \in Nums}
EdgeCells == {Num(0 - MaxVal), Num(MaxVal)}

\* Each revenue column and cogs: missing, NaN or any number; gross_profit and
\* accounts_receivable: missing, NaN or an extreme number
RevenueCells == [RevenueColumns -> {Missing, NaN} \cup NumCells]
OtherCells == [FieldColumns \ RevenueColumns -> {Missing, NaN} \cup EdgeCells]

\* The cells of a row whose values are all numbers or absent
ValidFields(r, o) ==
    [c \in FieldColumns |-> IF c \in RevenueColumns THEN r[c] ELSE o[c]]

\* Strings a broken upstream could leave in a cell: one float() parses, one not
StringCells == {Str("1"), Str("n/a")}

\* A row with the string s in column c, which the valid cells leave out
MalformedFields(r, o, c, s) == [ValidFields(r, o) EXCEPT ![c] = s]

\* The multi-call session: two fiscal years, each with a small valid row
SessionCells == [RevenueColumns -> {Missing} \cup {Num(n) : n \in 1..SessionMaxVal}]
SessionFields(g) ==
    [c \in FieldColumns |-> IF c \in RevenueColumns THEN g[c] ELSE Missing]
SessionYears == {DiagnosticYear, FiscalYear}

----------------------------------------------------------------------------
(* The tag mapping *)

\* Lines 23-38, in dict order
ADDITIONAL_REVENUE_TAGS ==
    << <<"RevenueFromContractWithCustomerIncludingAssessedTax", "revenue">>,
       <<"SalesRevenueGoodsNet", "revenue_products">>,
       <<"SalesRevenueServicesNet", "revenue_services">>,
       <<"RevenuesNetOfInterestExpense", "revenue">>,
       <<"RevenueNet", "revenue">>,
       <<"TotalRevenues", "revenue">>,
       <<"NetSales", "revenue">>,
       <<"SalesRevenueGoodsGross", "revenue">>,
       <<"TotalRevenuesAndOtherIncome", "revenue">>,
       <<"RevenueFromContractWithCustomerExcludingAssessedTaxTransferredAtPointInTime",
         "revenue_point">>,
       <<"RevenueFromContractWithCustomerExcludingAssessedTaxTransferredOverTime",
         "revenue_over_time">> >>

\* dict.update: the new entry replaces an existing one
RegisterTagOverwrite(mapping, tag, var) == DictSet(mapping, tag, var)

\* Lines 41-43 for one (tag, var) pair: add only when the tag is absent
RegisterTag(mapping, tag, var) ==
    IF tag \notin DOMAIN mapping THEN DictSet(mapping, tag, var) ELSE mapping

\* Lines 41-43: the loop over the items of `extra` from position i on
RECURSIVE RegisterTags(_, _, _)
RegisterTags(mapping, extra, i) ==
    IF i > Len(extra) THEN mapping
    ELSE RegisterTags(RegisterTag(mapping, extra[i][1], extra[i][2]), extra, i + 1)

\* The loader cell's mapping is not part of the fix; it may already hold some
\* of these tags, under any of these fields
BaseTags == {"Revenues", "NetSales", "SalesRevenueGoodsNet"}
BaseFields == {"revenue", "revenue_products", "accounts_receivable"}
Unmapped == "(unmapped)"

InitialMappings ==
    {[t \in {x \in BaseTags : f[x] # Unmapped} |-> f[t]] :
        f \in [BaseTags -> BaseFields \cup {Unmapped}]}

\* Tags and fields a caller may register one at a time, and the raw tags of
\* a filing handed to resolve
CallerTags == {"NetSales", "SalesRevenueGoodsNet", "CostOfRevenue"}
CallerFields == {"revenue", "cogs"}
FilingTags == {"UnknownTagXYZ", "NetSales", "SalesRevenueGoodsNet", "Revenues"}

\* resolve filing unmapped tags under a field of their own
resolveKeepUnknown(tags) ==
    LET field(t) == DictGet(EDGAR_TAG_MAPPING, t, Unmapped)
    IN  [v \in {field(t) : t \in tags} |-> {t \in tags : field(t) = v}]

\* resolve(rawTags): canonical field -> the raw tags of the input mapped to
\* it; tags without an entry are dropped
resolve(tags) ==
    LET known == {t \in tags : t \in DOMAIN EDGAR_TAG_MAPPING}
    IN  [v \in {EDGAR_TAG_MAPPING[t] : t \in known} |->
            {t \in known : EDGAR_TAG_MAPPING[t] = v}]

----------------------------------------------------------------------------
(* Actions *)

reconcile_vars == <<loader, called_year, result, first_call, years_called>>
tag_vars == <<EDGAR_TAG_MAPPING, fix_applied, rawTags, resolved>>

NoCall == [made |-> FALSE, year |-> 0, result |-> NotCalled]

\* edgar_loader.to_financials_dict(cik, year), patched (lines 54-83, 87-90):
\* reads the loader's data, which it leaves as it is, and returns a new dict
ToFinancialsDict ==
    \E year \in DOMAIN loader :
        LET ret == fixed_to_financials_dict(loader[year])
        IN  /\ result' = ret
            /\ called_year' = year
            /\ first_call' = IF first_call.made THEN first_call
                             ELSE [made |-> TRUE, year |-> year, result |-> ret]
            /\ years_called' = years_called \cup {year}
            /\ loader' = loader
            /\ UNCHANGED tag_vars

\* Lines 41-43 run on ADDITIONAL_REVENUE_TAGS (the fix cell, step 1)
ExpandMapping ==
    /\ EDGAR_TAG_MAPPING' = RegisterTags(EDGAR_TAG_MAPPING, ADDITIONAL_REVENUE_TAGS, 1)
    /\ fix_applied' = TRUE
    /\ UNCHANGED <<rawTags, resolved>>
    /\ UNCHANGED reconcile_vars

\* A caller registers one more entry the same way
Register ==
    \E tag \in CallerTags, var \in CallerFields :
        /\ EDGAR_TAG_MAPPING' = RegisterTag(EDGAR_TAG_MAPPING, tag, var)
        /\ UNCHANGED <<fix_applied, rawTags, resolved>>
        /\ UNCHANGED reconcile_vars

\* resolve on the raw tags of a filing
Resolve ==
    \E tags \in SUBSET FilingTags :
        /\ rawTags' = tags
        /\ resolved' = resolve(tags)
        /\ UNCHANGED <<EDGAR_TAG_MAPPING, fix_applied>>
        /\ UNCHANGED reconcile_vars

----------------------------------------------------------------------------
(* Specifications *)

TagInit ==
    /\ fix_applied = FALSE
    /\ rawTags = {}
    /\ resolved = EmptyDict

ReconcileInit ==
    /\ called_year = 0
    /\ result = NotCalled
    /\ first_call = NoCall
    /\ years_called = {}

\* The loader returns `data` for the fiscal year queried
LoaderHolds(data) == loader = [y \in {FiscalYear} |-> data]

\* One query of the patched method: the loader returns None, no row, a row
\* of numbers and absences, a row with a string in one column, or two rows
Init ==
    /\ \/ \E data \in {None, Frame(<<>>)} : LoaderHolds(data)
       \/ \E r \in RevenueCells, o \in OtherCells :
             LoaderHolds(Frame(<<RowOf(ValidFields(r, o), FiscalYear)>>))
       \/ \E r \in RevenueCells, o \in OtherCells :
             \E c \in FieldColumns, s \in StringCells :
                /\ ValidFields(r, o)[c] = Missing
                /\ LoaderHolds(Frame(<<RowOf(MalformedFields(r, o, c, s), FiscalYear)>>))
       \/ \E a \in SessionCells, b \in SessionCells :
             LoaderHolds(Frame(<<RowOf(SessionFields(a), FiscalYear),
                                 RowOf(SessionFields(b), FiscalYear)>>))
    /\ ReconcileInit
    /\ EDGAR_TAG_MAPPING = EmptyDict
    /\ TagInit

Next == ToFinancialsDict

Spec == Init /\ [][Next]_vars

\* Several queries in any order, over two fiscal years
SessionInit ==
    /\ \E a \in SessionCells, b \in SessionCells :
          loader = [y \in SessionYears |->
                      Frame(<<RowOf(SessionFields(IF y = FiscalYear THEN a ELSE b), y)>>)]
    /\ ReconcileInit
    /\ EDGAR_TAG_MAPPING = EmptyDict
    /\ TagInit

SessionNext == ToFinancialsDict

SpecSession == SessionInit /\ [][SessionNext]_vars

\* The tag mapping: the fix cell's expansion, further registrations, resolve
TagsInit ==
    /\ loader = [y \in {FiscalYear} |-> None]
    /\ ReconcileInit
    /\ EDGAR_TAG_MAPPING \in InitialMappings
    /\ TagInit

TagsNext == ExpandMapping \/ Register \/ Resolve

SpecTags == TagsInit /\ [][TagsNext]_vars

----------------------------------------------------------------------------
(* Reading a state *)

\* The last call got a row from the loader
HasRow == result.status \in {"ok", "raised"}

\* The row the last call read: company_data.iloc[0]
CalledRow == loader[called_year].rows[1]

financials == result.financials

\* A field is present in a row when the column exists and holds a number
Present(row, c) == c \in DOMAIN row /\ row[c].kind = "num"
Absent(row, c) == c \notin DOMAIN row \/ row[c].kind = "nan"

\* FilingRow: every column holds a number or the absence marker
IsFilingRow(row) == \A c \in DOMAIN row : row[c].kind \in {"num", "nan"}

Max(a, b) == IF a >= b THEN a ELSE b

----------------------------------------------------------------------------
(* Claims about the reconciliation, under Spec *)

\* C1 (component dominance): for every row with revenue_products = A >= 0 and
\* revenue_services = B >= 0 both present, the call returns revenue =
\* max(R, A+B) when the input revenue R is present, and revenue = A+B when
\* it is absent, the case A+B = 0 included.
C1_ComponentDominance ==
    (/\ HasRow
     /\ IsFilingRow(CalledRow)
     /\ Present(CalledRow, "revenue_products")
     /\ Present(CalledRow, "revenue_services")
     /\ CalledRow["revenue_products"].num >= 0
     /\ CalledRow["revenue_services"].num >= 0)
    => LET A == CalledRow["revenue_products"].num
           B == CalledRow["revenue_services"].num
       IN  /\ result.status = "ok"
           /\ "revenue" \in DOMAIN financials
           /\ financials["revenue"] =
                 IF Present(CalledRow, "revenue")
                 THEN Max(CalledRow["revenue"].num, A + B)
                 ELSE A + B

\* C2 (derived consistency): whenever the returned dict holds both revenue
\* and cogs, it holds gross_profit = revenue - cogs, with revenue the value
\* after the component-sum override, whatever gross_profit the row reported.
C2_DerivedConsistency ==
    (/\ result.status = "ok"
     /\ "revenue" \in DOMAIN financials
     /\ "cogs" \in DOMAIN financials)
    => /\ "gross_profit" \in DOMAIN financials
       /\ financials["gross_profit"] = financials["revenue"] - financials["cogs"]

\* C2 witness: revenue overridden by the component sum (1 + 1 > 1) and a
\* reported gross_profit of -1 replaced by 2 - 1.
C2_Witness ==
    /\ result.status = "ok"
    /\ Present(CalledRow, "revenue") /\ CalledRow["revenue"].num = 1
    /\ Present(CalledRow, "gross_profit") /\ CalledRow["gross_profit"].num = 0 - 1
    /\ "revenue" \in DOMAIN financials /\ financials["revenue"] = 2
    /\ "cogs" \in DOMAIN financials /\ financials["cogs"] = 1
    /\ "gross_profit" \in DOMAIN financials /\ financials["gross_profit"] = 1

\* C3 (output invariant): for rows of any sign, whenever revenue_products and
\* revenue_services are both in the returned dict, revenue is in it too and
\* revenue >= revenue_products + revenue_services.
C3_OutputInvariant ==
    (/\ result.status = "ok"
     /\ "revenue_products" \in DOMAIN financials
     /\ "revenue_services" \in DOMAIN financials)
    => /\ "revenue" \in DOMAIN financials
       /\ financials["revenue"] >=
             financials["revenue_products"] + financials["revenue_services"]

\* C4 (no zero-fill): for every row with neither revenue_products nor
\* revenue_services, the call returns revenue exactly as in the row; an
\* absent revenue stays absent, and gross_profit is then not derived: it is
\* in the output only as the row reported it.
C4_NoZeroFill ==
    (/\ HasRow
     /\ IsFilingRow(CalledRow)
     /\ Absent(CalledRow, "revenue_products")
     /\ Absent(CalledRow, "revenue_services"))
    => /\ result.status = "ok"
       /\ Present(CalledRow, "revenue")
            => /\ "revenue" \in DOMAIN financials
               /\ financials["revenue"] = CalledRow["revenue"].num
       /\ Absent(CalledRow, "revenue")
            => /\ "revenue" \notin DOMAIN financials
               /\ "gross_profit" \in DOMAIN financials
                     <=> Present(CalledRow, "gross_profit")
               /\ Present(CalledRow, "gross_profit")
                     => financials["gross_profit"] = CalledRow["gross_profit"].num

\* C4 witness: a row with no revenue field at all and accounts_receivable
\* only; the call returns accounts_receivable alone.
C4_Witness ==
    /\ result.status = "ok"
    /\ DOMAIN CalledRow = IdColumns \cup {"accounts_receivable"}
    /\ Present(CalledRow, "accounts_receivable")
    /\ DOMAIN financials = {"accounts_receivable"}
    /\ financials["accounts_receivable"] = CalledRow["accounts_receivable"].num

\* C6 as first stated (pass-through): every column of the row holding a
\* number, other than revenue and gross_profit, is in the returned dict with
\* the same value, and the dict holds no key that is absent from the row
\* other than revenue and gross_profit.
C6_PassThroughAllColumns ==
    result.status = "ok"
    => /\ \A c \in DOMAIN CalledRow :
            (Present(CalledRow, c) /\ c \notin {"revenue", "gross_profit"})
            => (c \in DOMAIN financials /\ financials[c] = CalledRow[c].num)
       /\ \A c \in DOMAIN financials :
            c \in {"revenue", "gross_profit"} \/ ~Absent(CalledRow, c)

\* C6 (pass-through, amended): every column of the row holding a number,
\* other than revenue, gross_profit and the identifier columns cik and year,
\* is in the returned dict with the same value, negative values included,
\* and the dict holds no key that is absent from the row other than revenue
\* and gross_profit.
C6_PassThrough ==
    result.status = "ok"
    => /\ \A c \in DOMAIN CalledRow :
            (Present(CalledRow, c)
               /\ c \notin {"revenue", "gross_profit"} \cup IdColumns)
            => (c \in DOMAIN financials /\ financials[c] = CalledRow[c].num)
       /\ \A c \in DOMAIN financials :
            c \in {"revenue", "gross_profit"} \/ ~Absent(CalledRow, c)

\* C6 witness: negative cogs and accounts_receivable copied as they are
C6_Witness ==
    /\ result.status = "ok"
    /\ Present(CalledRow, "cogs") /\ CalledRow["cogs"].num = 0 - 1
    /\ Present(CalledRow, "accounts_receivable")
    /\ CalledRow["accounts_receivable"].num = 0 - 1
    /\ Present(CalledRow, "year")
    /\ DOMAIN financials = {"cogs", "accounts_receivable"}
    /\ financials["cogs"] = 0 - 1
    /\ financials["accounts_receivable"] = 0 - 1

\* C7 (malformed rows are rejected): if a column of the row holds a
\* non-numeric value (a string), the call raises and returns no dict; the
\* value is never coerced to a number.
C7_MalformedRejected ==
    (HasRow /\ \E c \in DOMAIN CalledRow \ IdColumns : CalledRow[c].kind = "str")
    => result.status = "raised"

\* C8 (absence is never an error): for every row whose present values are
\* all numbers, whichever of revenue, revenue_products, revenue_services,
\* cogs and gross_profit are absent, the call raises nothing and returns a
\* dict.
C8_AbsenceNeverRaises ==
    (HasRow /\ IsFilingRow(CalledRow)) => result.status = "ok"

\* C8 witness: revenue_products present, revenue_services NaN, revenue, cogs
\* and gross_profit not columns of the row
C8_Witness ==
    /\ result.status = "ok"
    /\ Present(CalledRow, "revenue_products")
    /\ "revenue_services" \in DOMAIN CalledRow
    /\ CalledRow["revenue_services"] = NaN
    /\ DOMAIN CalledRow \cap {"revenue", "cogs", "gross_profit"} = {}
    /\ DOMAIN financials = {"revenue_products"}

\* C11 (override only with both components): for every row in which
\* exactly one of revenue_products and revenue_services is present, the call
\* returns revenue exactly as in the row: the same value, or absent if it
\* was absent.
C11_OverrideNeedsBoth ==
    (/\ HasRow
     /\ IsFilingRow(CalledRow)
     /\ Present(CalledRow, "revenue_products")
           # Present(CalledRow, "revenue_services"))
    => /\ result.status = "ok"
       /\ Present(CalledRow, "revenue")
            => /\ "revenue" \in DOMAIN financials
               /\ financials["revenue"] = CalledRow["revenue"].num
       /\ Absent(CalledRow, "revenue") => "revenue" \notin DOMAIN financials

\* C11 witness: revenue_products = 1 alone exceeds the reported revenue 0,
\* revenue_services is NaN: revenue stays 0
C11_Witness ==
    /\ result.status = "ok"
    /\ Present(CalledRow, "revenue_products")
    /\ CalledRow["revenue_products"].num = 1
    /\ "revenue_services" \in DOMAIN CalledRow
    /\ CalledRow["revenue_services"] = NaN
    /\ Present(CalledRow, "revenue") /\ CalledRow["revenue"].num = 0
    /\ "revenue" \in DOMAIN financials /\ financials["revenue"] = 0
    /\ "revenue_services" \notin DOMAIN financials

\* C12 (idempotence): for every row of numbers and absences, applying the
\* component-sum override and then the gross-profit recomputation to the
\* returned dict yields the returned dict.
C12_Idempotent ==
    (HasRow /\ IsFilingRow(CalledRow))
    => /\ result.status = "ok"
       /\ RecalcGrossProfit(SumComponents(financials)) = financials

\* C12 witness: a call that overrode revenue (1 + 1 > 1) and replaced the
\* reported gross_profit -1 by 2 - 1
C12_Witness ==
    /\ result.status = "ok"
    /\ IsFilingRow(CalledRow)
    /\ Present(CalledRow, "revenue") /\ CalledRow["revenue"].num = 1
    /\ Present(CalledRow, "gross_profit") /\ CalledRow["gross_profit"].num = 0 - 1
    /\ DOMAIN financials =
          {"revenue", "revenue_products", "revenue_services", "cogs", "gross_profit"}
    /\ financials["revenue_products"] = 1 /\ financials["revenue_services"] = 1
    /\ financials["revenue"] = 2
    /\ financials["cogs"] = 1
    /\ financials["gross_profit"] = 1

\* The loader's answer to the last call
CalledData == loader[called_year]

\* C13 (no data yields no result): when get_company_financials returned None
\* or a frame without rows, the call returns None, not an empty dict, and
\* raises nothing; otherwise its outcome is that of the first row alone.
C13_NoDataNoResult ==
    result.status # "notcalled"
    => IF CalledData = None \/ Len(CalledData.rows) = 0
       THEN result = ReturnedNone /\ result # Returned(EmptyDict)
       ELSE /\ result.status # "none"
            /\ result = fixed_to_financials_dict(Frame(<<CalledData.rows[1]>>))

\* C13 witness: the loader returned a frame without rows and the call
\* returned None
C13_Witness ==
    /\ result = ReturnedNone
    /\ CalledData = Frame(<<>>)

----------------------------------------------------------------------------
(* Claims about repeated calls, under SpecSession *)

\* The last call was on the year of the first call: its outcome is the same
SameInputSameOutput ==
    (first_call.made /\ called_year = first_call.year)
    => result = first_call.result

\* C5 (immutability and determinism): no call changes the loader's rows, and
\* a call on the input of the first call returns what the first call
\* returned, whatever calls were made in between.
C5_ImmutableDeterministic ==
    /\ []SameInputSameOutput
    /\ [][loader' = loader]_vars

\* C5 witness: the first year queried again after a query of the other
\* year, whose row differs, with the outcome of the first call
C5_Witness ==
    /\ first_call.made
    /\ called_year = first_call.year
    /\ years_called = SessionYears
    /\ loader[DiagnosticYear] # loader[FiscalYear]
    /\ fixed_to_financials_dict(loader[DiagnosticYear])
         # fixed_to_financials_dict(loader[FiscalYear])
    /\ result.status = "ok"
    /\ result = first_call.result

----------------------------------------------------------------------------
(* Claims about the tag mapping, under SpecTags *)

\* C9 (registration preserves existing entries): in every step, each tag of
\* the mapping stays in it with the canonical field it had; so no entry is
\* removed or overridden, and a registration adds a tag only when absent.
C9_RegistrationPreserves ==
    [][\A t \in DOMAIN EDGAR_TAG_MAPPING :
          /\ t \in DOMAIN EDGAR_TAG_MAPPING'
          /\ EDGAR_TAG_MAPPING'[t] = EDGAR_TAG_MAPPING[t]]_vars

\* C9 witness: NetSales was mapped to accounts_receivable before the fix
\* registered NetSales -> revenue; the entry stands and the new tags are in
C9_Witness ==
    /\ fix_applied
    /\ "NetSales" \in DOMAIN EDGAR_TAG_MAPPING
    /\ EDGAR_TAG_MAPPING["NetSales"] = "accounts_receivable"
    /\ "TotalRevenues" \in DOMAIN EDGAR_TAG_MAPPING
    /\ EDGAR_TAG_MAPPING["TotalRevenues"] = "revenue"

\* C10 (unknown tag tolerance): for every set S of raw tags and every tag t
\* without an entry in the mapping, resolve(S \cup {t}) = resolve(S); and
\* each mapped tag of S is among the contributing tags of its canonical
\* field and of no other.
C10_UnknownTagTolerance ==
    \A S \in SUBSET FilingTags :
        /\ \A t \in FilingTags \ DOMAIN EDGAR_TAG_MAPPING :
              resolve(S \cup {t}) = resolve(S)
        /\ \A t \in S \cap DOMAIN EDGAR_TAG_MAPPING :
              /\ EDGAR_TAG_MAPPING[t] \in DOMAIN resolve(S)
              /\ \A v \in DOMAIN resolve(S) :
                    t \in resolve(S)[v] <=> v = EDGAR_TAG_MAPPING[t]

\* C10 witness: resolve({"UnknownTagXYZ", "NetSales"}) with NetSales ->
\* revenue returned {revenue: {"NetSales"}}
C10_Witness ==
    /\ rawTags = {"UnknownTagXYZ", "NetSales"}
    /\ "NetSales" \in DOMAIN EDGAR_TAG_MAPPING
    /\ EDGAR_TAG_MAPPING["NetSales"] = "revenue"
    /\ "UnknownTagXYZ" \notin DOMAIN EDGAR_TAG_MAPPING
    /\ DOMAIN resolved = {"revenue"}
    /\ resolved["revenue"] = {"NetSales"}

====
